---------------------------- MODULE Spec2Model ----------------------------
(***************************************************************************)
(* Model of src/app.py (TextTransformer): the English -> Devanagari        *)
(* phonetic transliteration, the external translation step, and the        *)
(* Devanagari -> Roman romanization with its cleanup pass.                 *)
(*                                                                         *)
(* A Python str is a sequence of characters.  A character is a TLA+ string:*)
(* printable ASCII stands for itself, "\n" "\t" "\r" for the control       *)
(* characters, and "uXXXX" for the code point U+XXXX.  Cursors keep        *)
(* Python's 0-based values; s[i] of Python is s[i + 1] here.               *)
(***************************************************************************)
EXTENDS Integers, Sequences, FiniteSets, TLC

VARIABLES
    pc,            \* position of the running call
    text,          \* the argument of the running top-level call
    out,           \* its return value (<<>> until it returns)
    lines,         \* english_to_devanagari_transliteration: lines
    result_lines,  \*   result_lines
    words,         \*   words of the current line
    result_words,  \*   result_words of the current line
    prefix,        \*   prefix of the current token
    suffix,        \*   suffix of the current token
    word,          \* _transliterate_word_advanced: word
    i,             \*   cursor i
    result,        \*   result

    use_gemini,    \* TextTransformer.use_gemini, fixed at construction
    calls,         \* external translator calls made, in order
    hindi,         \* hindi_devanagari, the argument of the romanizer
    primary,       \* hindi_to_roman_transliteration: outcomes of the library calls
    fallbacks,     \*   runs of _enhanced_manual_hindi_to_roman
    library_out,   \*   what the library call returned (line 281)
    mapped,        \*   _enhanced_manual_hindi_to_roman: result before cleanup
    escaped,       \* an exception left the top-level call
    roman,         \*   its return value
    results,       \* transform_text: results
    once,          \* one cleanup pass over text
    twice          \* a second cleanup pass over once

vars == <<pc, text, out, lines, result_lines, words, result_words, prefix,
          suffix, word, i, result, use_gemini, calls, hindi, primary,
          fallbacks, library_out, mapped, escaped, roman, results, once, twice>>

translit_vars == <<lines, result_lines, words, result_words, prefix, suffix,
                   word, i, result>>
roman_vars == <<hindi, primary, fallbacks, library_out, mapped, roman>>
translate_vars == <<use_gemini, calls, results>>
clean_vars == <<once, twice>>

-----------------------------------------------------------------------------
(* Bounds of the model.                                                    *)

MaxText == 3      \* longest free-form English input, in characters
MaxHindi == 3     \* longest free-form Devanagari input, in characters
MaxRoman == 4     \* longest free-form input of the cleanup pass

-----------------------------------------------------------------------------
(* Python str primitives.                                                  *)

CasedPairs ==
    << <<"a", "A">>, <<"b", "B">>, <<"c", "C">>, <<"d", "D">>, <<"e", "E">>,
       <<"f", "F">>, <<"g", "G">>, <<"h", "H">>, <<"i", "I">>, <<"j", "J">>,
       <<"k", "K">>, <<"l", "L">>, <<"m", "M">>, <<"n", "N">>, <<"o", "O">>,
       <<"p", "P">>, <<"q", "Q">>, <<"r", "R">>, <<"s", "S">>, <<"t", "T">>,
       <<"u", "U">>, <<"v", "V">>, <<"w", "W">>, <<"x", "X">>, <<"y", "Y">>,
       <<"z", "Z">>, <<"u00e9", "u00c9">>, <<"u00f1", "u00d1">> >>

LowerChars == {CasedPairs[k][1] : k \in DOMAIN CasedPairs}
UpperChars == {CasedPairs[k][2] : k \in DOMAIN CasedPairs}

\* Devanagari code points of category Lo (letters without case).
DevanagariLetters ==
    {"u0905", "u0906", "u0907", "u0908", "u0909", "u090a", "u090b", "u090f",
     "u0910", "u0911", "u0913", "u0914", "u0915", "u0916", "u0917", "u0918",
     "u0919", "u091a", "u091b", "u091c", "u091d", "u091e", "u091f", "u0920",
     "u0921", "u0922", "u0923", "u0924", "u0925", "u0926", "u0927", "u0928",
     "u092a", "u092b", "u092c", "u092d", "u092e", "u092f", "u0930", "u0932",
     "u0935", "u0936", "u0937", "u0938", "u0939", "u0950"}

char_islower(c) == c \in LowerChars
char_isupper(c) == c \in UpperChars
char_isalpha(c) == c \in LowerChars \cup UpperChars \cup DevanagariLetters
char_isspace(c) == c \in {" ", "\t", "\n", "\r"}

char_lower(c) ==
    IF c \in UpperChars
    THEN CasedPairs[CHOOSE k \in DOMAIN CasedPairs : CasedPairs[k][2] = c][1]
    ELSE c

char_upper(c) ==
    IF c \in LowerChars
    THEN CasedPairs[CHOOSE k \in DOMAIN CasedPairs : CasedPairs[k][1] = c][2]
    ELSE c

str_lower(s) == [k \in DOMAIN s |-> char_lower(s[k])]
str_upper(s) == [k \in DOMAIN s |-> char_upper(s[k])]

\* s[a:b] with 0 <= a, b <= len(s)
Slice(s, a, b) == SubSeq(s, a + 1, b)

\* s.find(sub) + 1: the 1-based index of the first occurrence, 0 if none
Find(s, sub) ==
    LET hits == {p \in 1..(Len(s) - Len(sub) + 1) : SubSeq(s, p, p + Len(sub) - 1) = sub}
    IN  IF hits = {} THEN 0 ELSE CHOOSE p \in hits : \A q \in hits : p <= q

RECURSIVE str_split(_, _)
\* s.split(sep) for a non-empty sep
str_split(s, sep) ==
    LET p == Find(s, sep)
    IN  IF p = 0 THEN <<s>>
        ELSE <<SubSeq(s, 1, p - 1)>> \o str_split(SubSeq(s, p + Len(sep), Len(s)), sep)

\* s.lstrip(), s.rstrip(), s.strip()
str_lstrip(s) ==
    LET keep == {p \in DOMAIN s : ~ char_isspace(s[p])}
    IN  IF keep = {} THEN <<>>
        ELSE SubSeq(s, CHOOSE p \in keep : \A q \in keep : p <= q, Len(s))

str_rstrip(s) ==
    LET keep == {p \in DOMAIN s : ~ char_isspace(s[p])}
    IN  IF keep = {} THEN <<>>
        ELSE SubSeq(s, 1, CHOOSE p \in keep : \A q \in keep : q <= p)

str_strip(s) == str_rstrip(str_lstrip(s))

RECURSIVE str_split_ws(_)
\* s.split(): the maximal runs of non-whitespace characters
str_split_ws(s) ==
    LET t == str_lstrip(s)
        spaces == {p \in DOMAIN t : char_isspace(t[p])}
    IN  IF t = <<>> THEN <<>>
        ELSE IF spaces = {} THEN <<t>>
        ELSE LET p == CHOOSE p \in spaces : \A q \in spaces : p <= q
             IN  <<SubSeq(t, 1, p - 1)>> \o str_split_ws(SubSeq(t, p + 1, Len(t)))

RECURSIVE str_join(_, _)
\* sep.join(parts)
str_join(sep, parts) ==
    IF parts = <<>> THEN <<>>
    ELSE IF Len(parts) = 1 THEN parts[1]
    ELSE parts[1] \o sep \o str_join(sep, Tail(parts))

RECURSIVE str_replace(_, _, _)
\* s.replace(old, new) for a non-empty old: occurrences are found left to
\* right and do not overlap
str_replace(s, old, new) ==
    LET p == Find(s, old)
    IN  IF p = 0 THEN s
        ELSE SubSeq(s, 1, p - 1) \o new
                \o str_replace(SubSeq(s, p + Len(old), Len(s)), old, new)

\* All sequences over S of length at most n
RECURSIVE SeqsUpTo(_, _)
SeqsUpTo(S, n) ==
    IF n = 0 THEN {<<>>}
    ELSE LET shorter == SeqsUpTo(S, n - 1)
         IN  shorter \cup {Append(s, c) : s \in shorter, c \in S}

Min(a, b) == IF a <= b THEN a ELSE b

-----------------------------------------------------------------------------
(* The static tables built by TextTransformer.__init__.                    *)

\* self.eng_to_dev_map, section by section
\* Single letters (lines 61-65), one source line per row
eng_single_letters ==
       ((<<"a">> :> <<"u0905">>) @@ (<<"b">> :> <<"u092c">>) @@ (<<"c">> :> <<"u0915">>) @@ (<<"d">> :> <<"u0926">>) @@ (<<"e">> :> <<"u0908">>) @@ (<<"f">> :> <<"u092b">>))
    @@ ((<<"g">> :> <<"u0917">>) @@ (<<"h">> :> <<"u0939">>) @@ (<<"i">> :> <<"u0906", "u0908">>) @@ (<<"j">> :> <<"u091c">>) @@ (<<"k">> :> <<"u0915">>) @@ (<<"l">> :> <<"u0932">>))
    @@ ((<<"m">> :> <<"u092e">>) @@ (<<"n">> :> <<"u0928">>) @@ (<<"o">> :> <<"u0913">>) @@ (<<"p">> :> <<"u092a">>) @@ (<<"q">> :> <<"u0915", "u094d", "u092f", "u0942">>) @@ (<<"r">> :> <<"u0906", "u0930">>))
    @@ ((<<"s">> :> <<"u090f", "u0938">>) @@ (<<"t">> :> <<"u091f">>) @@ (<<"u">> :> <<"u092f", "u0942">>) @@ (<<"v">> :> <<"u0935", "u0940">>) @@ (<<"w">> :> <<"u0921", "u092c", "u094d", "u0932", "u094d", "u092f", "u0942">>))
    @@ ((<<"x">> :> <<"u090f", "u0915", "u094d", "u0938">>) @@ (<<"y">> :> <<"u0935", "u093e", "u0908">>) @@ (<<"z">> :> <<"u091c", "u0947", "u0921">>))

\* Common consonant combinations (lines 68-70), one source line per row
eng_consonant_combinations ==
       ((<<"t", "h">> :> <<"u0925">>) @@ (<<"s", "h">> :> <<"u0936">>) @@ (<<"c", "h">> :> <<"u091a">>) @@ (<<"p", "h">> :> <<"u092b">>) @@ (<<"g", "h">> :> <<"u0918">>))
    @@ ((<<"k", "h">> :> <<"u0916">>) @@ (<<"d", "h">> :> <<"u0927">>) @@ (<<"b", "h">> :> <<"u092d">>) @@ (<<"j", "h">> :> <<"u091d">>) @@ (<<"n", "g">> :> <<"u0902", "u0917">>))
    @@ ((<<"c", "k">> :> <<"u0915">>) @@ (<<"s", "t">> :> <<"u0938", "u094d", "u091f">>) @@ (<<"s", "p">> :> <<"u0938", "u094d", "u092a">>) @@ (<<"s", "c">> :> <<"u0938", "u094d", "u0915">>) @@ (<<"s", "k">> :> <<"u0938", "u094d", "u0915">>))

\* Vowel combinations and sounds (lines 73-76), one source line per row
eng_vowel_combinations ==
       ((<<"a", "a">> :> <<"u0906">>) @@ (<<"e", "e">> :> <<"u0908">>) @@ (<<"i", "i">> :> <<"u0908">>) @@ (<<"o", "o">> :> <<"u090a">>) @@ (<<"u", "u">> :> <<"u090a">>))
    @@ ((<<"a", "i">> :> <<"u0910">>) @@ (<<"a", "y">> :> <<"u090f">>) @@ (<<"a", "u">> :> <<"u0914">>) @@ (<<"a", "w">> :> <<"u0911">>) @@ (<<"e", "y">> :> <<"u090f">>))
    @@ ((<<"o", "u">> :> <<"u0913">>) @@ (<<"o", "w">> :> <<"u0906", "u0909">>) @@ (<<"o", "y">> :> <<"u0911", "u092f">>) @@ (<<"e", "a">> :> <<"u0908">>) @@ (<<"i", "e">> :> <<"u0906", "u0908">>))
    @@ ((<<"o", "a">> :> <<"u0913">>) @@ (<<"u", "e">> :> <<"u092f", "u0942">>) @@ (<<"u", "i">> :> <<"u092f", "u0942", "u0906", "u0908">>) @@ (<<"e", "u">> :> <<"u092f", "u0942">>))

\* Common words (lines 79-92), one source line per row
eng_common_words ==
       ((<<"t", "h", "e">> :> <<"u0926">>) @@ (<<"a", "n", "d">> :> <<"u090f", "u0902", "u0921">>) @@ (<<"a", "r", "e">> :> <<"u0906", "u0930">>) @@ (<<"y", "o", "u">> :> <<"u092f", "u0942">>) @@ (<<"f", "o", "r">> :> <<"u092b", "u0949", "u0930">>))
    @@ ((<<"n", "o", "t">> :> <<"u0928", "u0949", "u091f">>) @@ (<<"b", "u", "t">> :> <<"u092c", "u091f">>) @@ (<<"c", "a", "n">> :> <<"u0915", "u0948", "u0928">>) @@ (<<"a", "l", "l">> :> <<"u0911", "u0932">>) @@ (<<"a", "n", "y">> :> <<"u090f", "u0928", "u0940">>))
    @@ ((<<"h", "a", "d">> :> <<"u0939", "u0948", "u0921">>) @@ (<<"h", "e", "r">> :> <<"u0939", "u0930">>) @@ (<<"w", "a", "s">> :> <<"u0935", "u0949", "u091c", "u093c">>) @@ (<<"o", "n", "e">> :> <<"u0935", "u0928">>) @@ (<<"o", "u", "r">> :> <<"u0906", "u0935", "u0930">>))
    @@ ((<<"o", "u", "t">> :> <<"u0906", "u0909", "u091f">>) @@ (<<"d", "a", "y">> :> <<"u0921", "u0947">>) @@ (<<"g", "e", "t">> :> <<"u0917", "u0947", "u091f">>) @@ (<<"h", "a", "s">> :> <<"u0939", "u0948", "u091c", "u093c">>) @@ (<<"h", "i", "m">> :> <<"u0939", "u093f", "u092e">>))
    @@ ((<<"h", "i", "s">> :> <<"u0939", "u093f", "u091c", "u093c">>) @@ (<<"h", "o", "w">> :> <<"u0939", "u093e", "u0909">>) @@ (<<"m", "a", "n">> :> <<"u092e", "u0948", "u0928">>) @@ (<<"n", "e", "w">> :> <<"u0928", "u094d", "u092f", "u0942">>) @@ (<<"n", "o", "w">> :> <<"u0928", "u093e", "u0909">>))
    @@ ((<<"o", "l", "d">> :> <<"u0913", "u0932", "u094d", "u0921">>) @@ (<<"s", "e", "e">> :> <<"u0938", "u0940">>) @@ (<<"t", "w", "o">> :> <<"u091f", "u0942">>) @@ (<<"w", "a", "y">> :> <<"u0935", "u0947">>) @@ (<<"w", "h", "o">> :> <<"u0939", "u0942">>))
    @@ ((<<"b", "o", "y">> :> <<"u092c", "u0949", "u092f">>) @@ (<<"d", "i", "d">> :> <<"u0921", "u093f", "u0921">>) @@ (<<"i", "t", "s">> :> <<"u0907", "u091f", "u094d", "u0938">>) @@ (<<"l", "e", "t">> :> <<"u0932", "u0947", "u091f">>) @@ (<<"p", "u", "t">> :> <<"u092a", "u0941", "u091f">>))
    @@ ((<<"s", "a", "y">> :> <<"u0938", "u0947">>) @@ (<<"s", "h", "e">> :> <<"u0936", "u0940">>) @@ (<<"t", "o", "o">> :> <<"u091f", "u0942">>) @@ (<<"u", "s", "e">> :> <<"u092f", "u0942", "u091c", "u093c">>) @@ (<<"w", "h", "a", "t">> :> <<"u0935", "u094d", "u0939", "u093e", "u091f">>))
    @@ ((<<"w", "h", "e", "n">> :> <<"u0935", "u094d", "u0939", "u0947", "u0928">>) @@ (<<"w", "h", "e", "r", "e">> :> <<"u0935", "u094d", "u0939", "u0947", "u092f", "u0930">>) @@ (<<"w", "h", "y">> :> <<"u0935", "u094d", "u0939", "u093e", "u0908">>) @@ (<<"w", "i", "t", "h">> :> <<"u0935", "u093f", "u0925">>))
    @@ ((<<"w", "i", "l", "l">> :> <<"u0935", "u093f", "u0932">>) @@ (<<"w", "e", "r", "e">> :> <<"u0935", "u0930">>) @@ (<<"b", "e", "e", "n">> :> <<"u092c", "u0940", "u0928">>) @@ (<<"h", "a", "v", "e">> :> <<"u0939", "u0948", "u0935">>))
    @@ ((<<"t", "h", "i", "s">> :> <<"u0926", "u093f", "u0938">>) @@ (<<"t", "h", "a", "t">> :> <<"u0926", "u0948", "u091f">>) @@ (<<"t", "h", "e", "y">> :> <<"u0926", "u0947">>) @@ (<<"t", "h", "e", "m">> :> <<"u0926", "u0947", "u092e">>))
    @@ ((<<"t", "h", "e", "r", "e">> :> <<"u0926", "u0947", "u092f", "u0930">>) @@ (<<"t", "h", "e", "n">> :> <<"u0926", "u0947", "u0928">>) @@ (<<"t", "h", "a", "n">> :> <<"u0926", "u0948", "u0928">>) @@ (<<"t", "h", "e", "s", "e">> :> <<"u0926", "u0940", "u091c", "u093c">>))
    @@ ((<<"t", "h", "o", "s", "e">> :> <<"u0926", "u094b", "u091c", "u093c">>) @@ (<<"t", "h", "i", "n", "k">> :> <<"u0925", "u093f", "u0902", "u0915">>) @@ (<<"t", "h", "r", "o", "u", "g", "h">> :> <<"u0925", "u094d", "u0930", "u0942">>) @@ (<<"t", "i", "m", "e">> :> <<"u091f", "u093e", "u0907", "u092e">>))
    @@ ((<<"t", "a", "k", "e">> :> <<"u091f", "u0947", "u0915">>) @@ (<<"t", "e", "l", "l">> :> <<"u091f", "u0947", "u0932">>) @@ (<<"t", "u", "r", "n">> :> <<"u091f", "u0930", "u094d", "u0928">>) @@ (<<"t", "r", "y">> :> <<"u091f", "u094d", "u0930", "u093e", "u0908">>))

\* Story-specific words (a repeated key keeps its one value) (lines 95-103), one source line per row
eng_story_words ==
       ((<<"f", "i", "r", "s", "t">> :> <<"u092b", "u0930", "u094d", "u0938", "u094d", "u091f">>) @@ (<<"w", "i", "f", "e">> :> <<"u0935", "u093e", "u0907", "u092b">>) @@ (<<"w", "e", "d", "d", "i", "n", "g">> :> <<"u0935", "u0947", "u0921", "u093f", "u0902", "u0917">>) @@ (<<"n", "i", "g", "h", "t">> :> <<"u0928", "u093e", "u0907", "u091f">>))
    @@ ((<<"l", "y", "i", "n", "g">> :> <<"u0932", "u093e", "u0907", "u0902", "u0917">>) @@ (<<"b", "e", "d">> :> <<"u092c", "u0947", "u0921">>) @@ (<<"q", "u", "i", "e", "t", "l", "y">> :> <<"u0915", "u094d", "u0935", "u093e", "u0907", "u091f", "u0932", "u0940">>) @@ (<<"s", "a", "i", "d">> :> <<"u0938", "u0947", "u0921">>))
    @@ ((<<"d", "i", "e">> :> <<"u0921", "u093e", "u0908">>) @@ (<<"d", "i", "e", "d">> :> <<"u0921", "u093e", "u0907", "u0921">>) @@ (<<"l", "i", "f", "e">> :> <<"u0932", "u093e", "u0907", "u092b">>) @@ (<<"b", "o", "r", "n">> :> <<"u092c", "u0949", "u0930", "u094d", "u0928">>))
    @@ ((<<"m", "a", "r", "r", "i", "e", "d">> :> <<"u092e", "u0948", "u0930", "u093f", "u0921">>) @@ (<<"m", "a", "r", "r", "y">> :> <<"u092e", "u0948", "u0930", "u0940">>) @@ (<<"g", "u", "e", "s", "s">> :> <<"u0917", "u0947", "u0938">>) @@ (<<"f", "o", "r", "g", "o", "t">> :> <<"u092b", "u0949", "u0930", "u0917", "u0949", "u091f">>))
    @@ ((<<"a", "b", "o", "u", "t">> :> <<"u0905", "u092c", "u093e", "u0909", "u091f">>) @@ (<<"n", "e", "e", "d">> :> <<"u0928", "u0940", "u0921">>) @@ (<<"n", "e", "e", "d", "i", "n", "g">> :> <<"u0928", "u0940", "u0921", "u093f", "u0902", "u0917">>) @@ (<<"k", "i", "d">> :> <<"u0915", "u093f", "u0921">>))
    @@ ((<<"c", "h", "i", "l", "d">> :> <<"u091a", "u093e", "u0907", "u0932", "u094d", "u0921">>) @@ (<<"s", "u", "p", "p", "o", "s", "e">> :> <<"u0938", "u092a", "u094b", "u091c", "u093c">>) @@ (<<"m", "i", "g", "h", "t">> :> <<"u092e", "u093e", "u0907", "u091f">>) @@ (<<"l", "e", "d">> :> <<"u0932", "u0947", "u0921">>))
    @@ ((<<"l", "i", "v", "e">> :> <<"u0932", "u093f", "u0935">>) @@ (<<"l", "i", "v", "e", "d">> :> <<"u0932", "u093f", "u0935", "u094d", "u0921">>) @@ (<<"l", "o", "n", "g">> :> <<"u0932", "u0949", "u0928", "u094d", "u0917">>) @@ (<<"c", "a", "r", "e">> :> <<"u0915", "u0947", "u092f", "u0930">>))
    @@ ((<<"d", "a", "u", "g", "h", "t", "e", "r">> :> <<"u0921", "u0949", "u091f", "u0930">>) @@ (<<"r", "e", "m", "e", "m", "b", "e", "r">> :> <<"u0930", "u093f", "u092e", "u0947", "u092e", "u094d", "u092c", "u0930">>) @@ (<<"m", "o", "t", "h", "e", "r">> :> <<"u092e", "u0926", "u0930">>))
    @@ ((<<"e", "v", "e", "n">> :> <<"u0908", "u0935", "u0928">>) @@ (<<"w", "e", "l", "l">> :> <<"u0935", "u0947", "u0932">>) @@ (<<"d", "o", "e", "s", "n", "t">> :> <<"u0921", "u091c", "u093c", "u0928", "u094d", "u091f">>))

\* Contractions and common patterns (lines 106-111), one source line per row
eng_contractions ==
       ((<<"d", "o", "n", "'", "t">> :> <<"u0921", "u094b", "u0928", "u094d", "u091f">>) @@ (<<"d", "o", "e", "s", "n", "'", "t">> :> <<"u0921", "u091c", "u093c", "u0928", "u094d", "u091f">>) @@ (<<"d", "i", "d", "n", "'", "t">> :> <<"u0921", "u093f", "u0921", "u0928", "u094d", "u091f">>))
    @@ ((<<"w", "o", "n", "'", "t">> :> <<"u0935", "u094b", "u0928", "u094d", "u091f">>) @@ (<<"c", "a", "n", "'", "t">> :> <<"u0915", "u093e", "u0928", "u094d", "u091f">>) @@ (<<"i", "s", "n", "'", "t">> :> <<"u0907", "u091c", "u093c", "u0928", "u094d", "u091f">>))
    @@ ((<<"a", "r", "e", "n", "'", "t">> :> <<"u0906", "u0930", "u0928", "u094d", "u091f">>) @@ (<<"w", "a", "s", "n", "'", "t">> :> <<"u0935", "u0949", "u091c", "u093c", "u0928", "u094d", "u091f">>) @@ (<<"w", "e", "r", "e", "n", "'", "t">> :> <<"u0935", "u0930", "u0928", "u094d", "u091f">>))
    @@ ((<<"i", "'", "m">> :> <<"u0906", "u0907", "u092e">>) @@ (<<"y", "o", "u", "'", "r", "e">> :> <<"u092f", "u0942", "u0906", "u0930">>) @@ (<<"w", "e", "'", "r", "e">> :> <<"u0935", "u0940", "u0906", "u0930">>))
    @@ ((<<"t", "h", "e", "y", "'", "r", "e">> :> <<"u0926", "u0947", "u092f", "u0930">>) @@ (<<"i", "t", "'", "s">> :> <<"u0907", "u091f", "u094d", "u0938">>) @@ (<<"t", "h", "a", "t", "'", "s">> :> <<"u0926", "u0948", "u091f", "u094d", "u0938">>))
    @@ ((<<"w", "h", "a", "t", "'", "s">> :> <<"u0935", "u094d", "u0939", "u093e", "u091f", "u094d", "u0938">>) @@ (<<"w", "h", "e", "r", "e", "'", "s">> :> <<"u0935", "u094d", "u0939", "u0947", "u092f", "u0930", "u094d", "u0938">>) @@ (<<"w", "h", "o", "'", "s">> :> <<"u0939", "u0942", "u091c", "u093c">>))

\* Common endings (lines 114-116), one source line per row
eng_endings ==
       ((<<"i", "n", "g">> :> <<"u0907", "u0902", "u0917">>) @@ (<<"t", "i", "o", "n">> :> <<"u0936", "u0928">>) @@ (<<"s", "i", "o", "n">> :> <<"u0936", "u0928">>) @@ (<<"e", "r">> :> <<"u0930">>) @@ (<<"e", "d">> :> <<"u0921">>))
    @@ ((<<"l", "y">> :> <<"u0932", "u0940">>) @@ (<<"t", "y">> :> <<"u091f", "u0940">>) @@ (<<"r", "y">> :> <<"u0930", "u0940">>) @@ (<<"a", "l">> :> <<"u0932">>) @@ (<<"l", "e">> :> <<"u0932">>))
    @@ ((<<"m", "e", "n", "t">> :> <<"u092e", "u0947", "u0902", "u091f">>) @@ (<<"n", "e", "s", "s">> :> <<"u0928", "u0947", "u0938">>) @@ (<<"a", "b", "l", "e">> :> <<"u090f", "u092c", "u0932">>) @@ (<<"i", "b", "l", "e">> :> <<"u0907", "u092c", "u0932">>))

eng_to_dev_map ==
    eng_single_letters
    @@ eng_consonant_combinations
    @@ eng_vowel_combinations
    @@ eng_common_words
    @@ eng_story_words
    @@ eng_contractions
    @@ eng_endings

\* enhanced_map of _enhanced_manual_hindi_to_roman, section by section
\* Vowels (lines 350-351), one source line per row
enhanced_vowels ==
       ((<<"u0905">> :> <<"a">>) @@ (<<"u0906">> :> <<"a", "a">>) @@ (<<"u0907">> :> <<"i">>) @@ (<<"u0908">> :> <<"e", "e">>) @@ (<<"u0909">> :> <<"u">>) @@ (<<"u090a">> :> <<"o", "o">>))
    @@ ((<<"u090f">> :> <<"e">>) @@ (<<"u0910">> :> <<"a", "i">>) @@ (<<"u0913">> :> <<"o">>) @@ (<<"u0914">> :> <<"a", "u">>) @@ (<<"u0905", "u0902">> :> <<"a", "n">>) @@ (<<"u0905", "u0903">> :> <<"a", "h">>))

\* Consonants (lines 354-361), one source line per row
enhanced_consonants ==
       ((<<"u0915">> :> <<"k">>) @@ (<<"u0916">> :> <<"k", "h">>) @@ (<<"u0917">> :> <<"g">>) @@ (<<"u0918">> :> <<"g", "h">>) @@ (<<"u0919">> :> <<"n", "g">>))
    @@ ((<<"u091a">> :> <<"c", "h">>) @@ (<<"u091b">> :> <<"c", "h", "h">>) @@ (<<"u091c">> :> <<"j">>) @@ (<<"u091d">> :> <<"j", "h">>) @@ (<<"u091e">> :> <<"n", "y">>))
    @@ ((<<"u091f">> :> <<"t">>) @@ (<<"u0920">> :> <<"t", "h">>) @@ (<<"u0921">> :> <<"d">>) @@ (<<"u0922">> :> <<"d", "h">>) @@ (<<"u0923">> :> <<"n">>))
    @@ ((<<"u0924">> :> <<"t">>) @@ (<<"u0925">> :> <<"t", "h">>) @@ (<<"u0926">> :> <<"d">>) @@ (<<"u0927">> :> <<"d", "h">>) @@ (<<"u0928">> :> <<"n">>))
    @@ ((<<"u092a">> :> <<"p">>) @@ (<<"u092b">> :> <<"p", "h">>) @@ (<<"u092c">> :> <<"b">>) @@ (<<"u092d">> :> <<"b", "h">>) @@ (<<"u092e">> :> <<"m">>))
    @@ ((<<"u092f">> :> <<"y">>) @@ (<<"u0930">> :> <<"r">>) @@ (<<"u0932">> :> <<"l">>) @@ (<<"u0935">> :> <<"v">>) @@ (<<"u0936">> :> <<"s", "h">>))
    @@ ((<<"u0937">> :> <<"s", "h">>) @@ (<<"u0938">> :> <<"s">>) @@ (<<"u0939">> :> <<"h">>) @@ (<<"u0915", "u094d", "u0937">> :> <<"k", "s", "h">>) @@ (<<"u0924", "u094d", "u0930">> :> <<"t", "r">>))
    @@ ((<<"u091c", "u094d", "u091e">> :> <<"g", "y", "a">>) @@ (<<"u090b">> :> <<"r", "i">>) @@ (<<"u0950">> :> <<"o", "m">>))

\* Matras (vowel signs) (lines 364-366), one source line per row
enhanced_matras ==
       ((<<"u093e">> :> <<"a", "a">>) @@ (<<"u093f">> :> <<"i">>) @@ (<<"u0940">> :> <<"e", "e">>) @@ (<<"u0941">> :> <<"u">>) @@ (<<"u0942">> :> <<"o", "o">>))
    @@ ((<<"u0947">> :> <<"e">>) @@ (<<"u0948">> :> <<"a", "i">>) @@ (<<"u094b">> :> <<"o">>) @@ (<<"u094c">> :> <<"a", "u">>) @@ (<<"u0902">> :> <<"n">>) @@ (<<"u0903">> :> <<"h">>))
    @@ ((<<"u094d">> :> <<>>) @@ (<<"u0901">> :> <<"n">>))

enhanced_map ==
    enhanced_vowels
    @@ enhanced_consonants
    @@ enhanced_matras

\* replacements of _clean_romanization, in dictionary order
replacements ==
  << <<<<"a", "a">>, <<"a", "a">>>>,
     <<<<"i", "i">>, <<"e", "e">>>>,
     <<<<"u", "u">>, <<"o", "o">>>>,
     <<<<"R", "^", "i">>, <<"r", "i">>>>,
     <<<<"R", "R", "i">>, <<"r", "i">>>>,
     <<<<"k", "h">>, <<"k", "h">>>>,
     <<<<"g", "h">>, <<"g", "h">>>>,
     <<<<"c", "h">>, <<"c", "h">>>>,
     <<<<"j", "h">>, <<"j", "h">>>>,
     <<<<"u00f1">>, <<"n", "y">>>>,
     <<<<"t", "h">>, <<"t", "h">>>>,
     <<<<"d", "h">>, <<"d", "h">>>>,
     <<<<"p", "h">>, <<"p", "h">>>>,
     <<<<"b", "h">>, <<"b", "h">>>>,
     <<<<"s", "h">>, <<"s", "h">>>>,
     <<<<"M">>, <<"m">>>>,
     <<<<"H">>, <<"h">>>>,
     <<<<".", "n">>, <<"n">>>>,
     <<<<".", "m">>, <<"m">>>>,
     <<<<".", "h">>, <<"h">>>>,
     <<<<".", "t">>, <<"t">>>>,
     <<<<".", "d">>, <<"d">>>>,
     <<<<".", "s">>, <<"s">>>>,
     <<<<".", "r">>, <<"r">>>>,
     <<<<".", "l">>, <<"l">>>>,
     <<<<"t", "i">>, <<"t", "i">>>>,
     <<<<"t", "e">>, <<"t", "e">>>>,
     <<<<"t", "a">>, <<"t", "a">>>>,
     <<<<"t", "u">>, <<"t", "u">>>>,
     <<<<"n", "i">>, <<"n", "i">>>>,
     <<<<"n", "e">>, <<"n", "e">>>>,
     <<<<"n", "a">>, <<"n", "a">>>>,
     <<<<"n", "u">>, <<"n", "u">>>>,
     <<<<" ", ".">>, <<".">>>>,
     <<<<" ", ",">>, <<",">>>>,
     <<<<" ", "!">>, <<"!">>>>,
     <<<<" ", "?">>, <<"?">>>>,
     <<<<" ", ";">>, <<";">>>>,
     <<<<" ", ":">>, <<":">>>>,
     <<<<"'", " ">>, <<"'">>>>,
     <<<<" ", "\"">>, <<"\"">>>> >>

-----------------------------------------------------------------------------
(* english_to_devanagari_transliteration and _transliterate_word_advanced. *)

PrefixChars == {"\"", "'", "("}
SuffixChars == {".", ",", "!", "?", ";", ":", ")", "'", "\"", "u2026"}
Vowels == {"a", "e", "i", "o", "u"}

\* the longest substring the probe tries
ProbeCap == 8

RECURSIVE StripLeading(_, _)
\* while clean_word and clean_word[0] in '"\'(': <<prefix, clean_word>>
StripLeading(pre, w) ==
    IF w # <<>> /\ Head(w) \in PrefixChars
    THEN StripLeading(Append(pre, Head(w)), Tail(w))
    ELSE <<pre, w>>

RECURSIVE StripTrailingAppending(_, _)
\* StripTrailing with "suffix += clean_word[-1]": the suffix comes out reversed
StripTrailingAppending(suf, w) ==
    IF w # <<>> /\ w[Len(w)] \in SuffixChars
    THEN StripTrailingAppending(Append(suf, w[Len(w)]), SubSeq(w, 1, Len(w) - 1))
    ELSE <<suf, w>>

RECURSIVE StripTrailing(_, _)
\* while clean_word and clean_word[-1] in '.,!?;:)\'"...': <<suffix, clean_word>>
StripTrailing(suf, w) ==
    IF w # <<>> /\ w[Len(w)] \in SuffixChars
    THEN StripTrailing(<<w[Len(w)]>> \o suf, SubSeq(w, 1, Len(w) - 1))
    ELSE <<suf, w>>

\* TokenParts without "word.lower()"
TokenPartsNoLower(tok) ==
    LET a == StripLeading(<<>>, tok)
        b == StripTrailing(<<>>, a[2])
    IN  [prefix |-> a[1], suffix |-> b[1], clean_word |-> b[2]]

\* prefix, suffix and clean_word of one token
TokenParts(tok) ==
    LET a == StripLeading(<<>>, str_lower(tok))
        b == StripTrailing(<<>>, a[2])
    IN  [prefix |-> a[1], suffix |-> b[1], clean_word |-> b[2]]

\* Probe with the lengths tried in ascending order: the shortest key wins
ProbeShortest(w, c, length) ==
    LET hits == {n \in 1..length :
                    c + n <= Len(w) /\ Slice(w, c, c + n) \in DOMAIN eng_to_dev_map}
    IN  IF hits = {} THEN 0 ELSE CHOOSE n \in hits : \A m \in hits : n <= m

RECURSIVE ProbeStopsAtTwo(_, _, _)
\* Probe with the loop written range(..., 1, -1): length 1 is never tried
ProbeStopsAtTwo(w, c, length) ==
    IF length <= 1 THEN 0
    ELSE IF c + length <= Len(w) /\ Slice(w, c, c + length) \in DOMAIN eng_to_dev_map
         THEN length
         ELSE ProbeStopsAtTwo(w, c, length - 1)

RECURSIVE Probe(_, _, _)
\* for length in range(min(8, len(word) - i), 0, -1): the first length whose
\* substring is a key, 0 when the loop ends without a match
Probe(w, c, length) ==
    IF length <= 0 THEN 0
    ELSE IF c + length <= Len(w) /\ Slice(w, c, c + length) \in DOMAIN eng_to_dev_map
         THEN length
         ELSE Probe(w, c, length - 1)

MatchedLength(w, c) == Probe(w, c, Min(ProbeCap, Len(w) - c))

\* the "if not matched" branch: what is appended for word[c]
FallbackChar(w, c) ==
    LET char == w[c + 1]
    IN  IF char_isalpha(char)
        THEN IF char = "y" /\ c > 0 THEN <<"u0940">>
             ELSE IF char = "w" /\ c < Len(w) - 1 /\ w[c + 2] \in Vowels
                  THEN <<"u0935">>
             ELSE IF <<char>> \in DOMAIN eng_to_dev_map
                  THEN eng_to_dev_map[<<char>>]
             ELSE <<char>>
        ELSE <<char>>

RECURSIVE ScanFrom(_, _, _)
ScanFrom(w, c, res) ==
    IF c >= Len(w) THEN res
    ELSE LET length == MatchedLength(w, c)
         IN  IF length > 0
             THEN ScanFrom(w, c + length, res \o eng_to_dev_map[Slice(w, c, c + length)])
             ELSE ScanFrom(w, c + 1, res \o FallbackChar(w, c))

\* _transliterate_word_advanced(word) as a function of its argument
transliterate_word_advanced(w) == ScanFrom(w, 0, <<>>)

\* the transliteration of a non-empty core: fast path, else the scan
TransliterateCore(core) ==
    IF core \in DOMAIN eng_to_dev_map THEN eng_to_dev_map[core]
    ELSE transliterate_word_advanced(core)

\* what the body of "for word in words" appends to result_words
TransliterateToken(tok) ==
    LET p == TokenParts(tok)
    IN  IF p.clean_word = <<>> THEN tok
        ELSE p.prefix \o TransliterateCore(p.clean_word) \o p.suffix

\* what the body of "for line in lines" appends to result_lines
TransliterateLine(line) ==
    IF str_strip(line) = <<>> THEN <<>>
    ELSE LET ws == str_split_ws(line)
         IN  str_join(<<" ">>, [k \in DOMAIN ws |-> TransliterateToken(ws[k])])

TranslitAlphabet == {"t", "h", "e", "y", "T", "'", ".", "(", " ", "\n"}

ExampleTexts ==
    {<<"t", "h", "e", " ", "b", "o", "y">>,
     <<"t", "h", "i", "n", "k">>,
     <<"\"", "h", "e", "l", "l", "o", "!", "\"">>,
     <<"t", "h", "e", "e">>,
     <<"T", "h", "e", " ", "e", "n", "d", ".">>,
     <<"d", "o", "n", "'", "t">>,
     <<"a", "\n", " ", "\t", "\n", " ", "b", " ", " ", "c", " ", "\n">>,
     <<"s", "w", "a", " ", "y", "e", "s">>,
     <<"\"", "y", "e", "s", "?", "!", "\"", " ", "(", ".">>,
     <<"c", "a", "f", "u00e9", " ", "a", "1">>,
     <<"(", "t", "h", "e", ")", " ", ".", ".", ".">>,
     <<"t", "h", "e", "\t", "b", "o", "y", "\r", "\n", "w", "h", "y", "?">>,
     <<"'", "i", "t", "'", "s", "'">>,
     <<"r", "e", "m", "e", "m", "b", "e", "r", " ", "d", "a", "u", "g", "h", "t", "e", "r", "s">>}

TranslitInputs == SeqsUpTo(TranslitAlphabet, MaxText) \cup ExampleTexts

NoResults == [english_devanagari |-> <<>>, hindi_devanagari |-> <<>>, hindi_roman |-> <<>>]

Idle ==
    /\ lines = <<>> /\ result_lines = <<>> /\ words = <<>> /\ result_words = <<>>
    /\ prefix = <<>> /\ suffix = <<>> /\ word = <<>> /\ i = 0 /\ result = <<>>
    /\ calls = <<>> /\ hindi = <<>> /\ results = NoResults
    /\ primary = <<>> /\ fallbacks = 0 /\ mapped = <<>> /\ roman = <<>>
    /\ library_out = <<>>
    /\ escaped = FALSE /\ once = <<>> /\ twice = <<>> /\ out = <<>>

InitT ==
    /\ pc = "t_start"
    /\ text \in TranslitInputs
    /\ use_gemini = FALSE
    /\ Idle

others_T == <<text, roman_vars, translate_vars, clean_vars, escaped>>

\* lines = text.split('\n'); result_lines = []
T_Split ==
    /\ pc = "t_start"
    /\ lines' = str_split(text, <<"\n">>)
    /\ result_lines' = <<>>
    /\ pc' = "t_lines"
    /\ UNCHANGED <<out, words, result_words, prefix, suffix, word, i, result, others_T>>

CurrentLine == lines[Len(result_lines) + 1]

\* T_BlankLine with "result_lines.append(line)"
T_BlankLineKeepsLine ==
    /\ pc = "t_lines"
    /\ Len(result_lines) < Len(lines)
    /\ str_strip(lines[Len(result_lines) + 1]) = <<>>
    /\ result_lines' = Append(result_lines, lines[Len(result_lines) + 1])
    /\ UNCHANGED <<pc, out, lines, words, result_words, prefix, suffix, word, i, result, others_T>>

\* if not line.strip(): result_lines.append(''); continue
T_BlankLine ==
    /\ pc = "t_lines"
    /\ Len(result_lines) < Len(lines)
    /\ str_strip(CurrentLine) = <<>>
    /\ result_lines' = Append(result_lines, <<>>)
    /\ UNCHANGED <<pc, out, lines, words, result_words, prefix, suffix, word, i, result, others_T>>

\* words = line.split(); result_words = []
T_SplitWords ==
    /\ pc = "t_lines"
    /\ Len(result_lines) < Len(lines)
    /\ str_strip(CurrentLine) # <<>>
    /\ words' = str_split_ws(CurrentLine)
    /\ result_words' = <<>>
    /\ pc' = "t_words"
    /\ UNCHANGED <<out, lines, result_lines, prefix, suffix, word, i, result, others_T>>

CurrentWord == words[Len(result_words) + 1]

\* if not clean_word: result_words.append(word); continue
T_WordVerbatim ==
    /\ pc = "t_words"
    /\ Len(result_words) < Len(words)
    /\ TokenParts(CurrentWord).clean_word = <<>>
    /\ result_words' = Append(result_words, CurrentWord)
    /\ UNCHANGED <<pc, out, lines, result_lines, words, prefix, suffix, word, i, result, others_T>>

\* if clean_word in self.eng_to_dev_map: append prefix + mapped + suffix
T_WordWhole ==
    /\ pc = "t_words"
    /\ Len(result_words) < Len(words)
    /\ LET p == TokenParts(CurrentWord)
       IN  /\ p.clean_word # <<>>
           /\ p.clean_word \in DOMAIN eng_to_dev_map
           /\ result_words' =
                 Append(result_words, p.prefix \o eng_to_dev_map[p.clean_word] \o p.suffix)
    /\ UNCHANGED <<pc, out, lines, result_lines, words, prefix, suffix, word, i, result, others_T>>

\* word_result = self._transliterate_word_advanced(clean_word): enter the call
T_WordAdvanced ==
    /\ pc = "t_words"
    /\ Len(result_words) < Len(words)
    /\ LET p == TokenParts(CurrentWord)
       IN  /\ p.clean_word # <<>>
           /\ p.clean_word \notin DOMAIN eng_to_dev_map
           /\ prefix' = p.prefix
           /\ suffix' = p.suffix
           /\ word' = p.clean_word
    /\ i' = 0
    /\ result' = <<>>
    /\ pc' = "t_scan"
    /\ UNCHANGED <<out, lines, result_lines, words, result_words, others_T>>

\* one iteration of "while i < len(word)" in which the probe matches
W_Match ==
    /\ pc = "t_scan"
    /\ i < Len(word)
    /\ LET length == MatchedLength(word, i)
       IN  /\ length > 0
           /\ result' = result \o eng_to_dev_map[Slice(word, i, i + length)]
           /\ i' = i + length
    /\ UNCHANGED <<pc, out, lines, result_lines, words, result_words, prefix, suffix, word, others_T>>

\* one iteration in which no substring matches
W_Fallback ==
    /\ pc = "t_scan"
    /\ i < Len(word)
    /\ MatchedLength(word, i) = 0
    /\ result' = result \o FallbackChar(word, i)
    /\ i' = i + 1
    /\ UNCHANGED <<pc, out, lines, result_lines, words, result_words, prefix, suffix, word, others_T>>

\* return result; result_words.append(prefix + word_result + suffix)
W_Return ==
    /\ pc = "t_scan"
    /\ i >= Len(word)
    /\ result_words' = Append(result_words, prefix \o result \o suffix)
    /\ pc' = "t_words"
    /\ UNCHANGED <<out, lines, result_lines, words, prefix, suffix, word, i, result, others_T>>

\* result_lines.append(' '.join(result_words))
T_JoinLine ==
    /\ pc = "t_words"
    /\ Len(result_words) = Len(words)
    /\ result_lines' = Append(result_lines, str_join(<<" ">>, result_words))
    /\ pc' = "t_lines"
    /\ UNCHANGED <<out, lines, words, result_words, prefix, suffix, word, i, result, others_T>>

\* return '\n'.join(result_lines)
T_Return ==
    /\ pc = "t_lines"
    /\ Len(result_lines) = Len(lines)
    /\ out' = str_join(<<"\n">>, result_lines)
    /\ pc' = "t_done"
    /\ UNCHANGED <<translit_vars, others_T>>

NextT ==
    \/ T_Split \/ T_BlankLine \/ T_SplitWords
    \/ T_WordVerbatim \/ T_WordWhole \/ T_WordAdvanced
    \/ W_Match \/ W_Fallback \/ W_Return
    \/ T_JoinLine \/ T_Return

SpecT == InitT /\ [][NextT]_vars

-----------------------------------------------------------------------------
(* _clean_romanization.                                                    *)

\* text.replace('~', '').replace('|', '').replace('^', '')
StripSymbols(t) ==
    str_replace(str_replace(str_replace(t, <<"~">>, <<>>), <<"|">>, <<>>), <<"^">>, <<>>)

RECURSIVE ApplyReplacements(_, _, _)
\* for old, new in replacements.items(): text = text.replace(old, new),
\* for the entries a..b in dictionary order.  The range is halved and the
\* text after the first half is bound as a value, which keeps the
\* evaluation shallow; the entries are still applied one after the other.
ApplyReplacements(t, a, b) ==
    IF a > b THEN t
    ELSE IF a = b THEN str_replace(t, replacements[a][1], replacements[a][2])
    ELSE LET mid == (a + b) \div 2
         IN  CHOOSE final \in
                {ApplyReplacements(half, mid + 1, b) :
                    half \in {ApplyReplacements(t, a, mid)}} : TRUE

\* CapitalizeSentence without the "else sentence.upper()" arm
CapitalizeSentenceLongOnly(sentence) ==
    IF sentence # <<>>
    THEN LET stripped == str_strip(sentence)
         IN  IF Len(stripped) > 1
             THEN <<char_upper(stripped[1])>> \o Tail(stripped)
             ELSE stripped
    ELSE sentence

\* the body of "for sentence in sentences": what is appended to capitalized
CapitalizeSentence(sentence) ==
    IF sentence # <<>>
    THEN LET stripped == str_strip(sentence)
         IN  IF stripped # <<>>
             THEN IF Len(stripped) > 1
                  THEN <<char_upper(stripped[1])>> \o Tail(stripped)
                  ELSE str_upper(stripped)
             ELSE stripped
    ELSE sentence

\* "Capitalize first letter of sentences" and "Ensure first character is
\* uppercase": the part of _clean_romanization after the replacements
CapitalizeSentences(t) ==
    LET sentences == str_split(t, <<".", " ">>)
        capitalized == [k \in DOMAIN sentences |-> CapitalizeSentence(sentences[k])]
        joined == str_join(<<".", " ">>, capitalized)
    IN  IF joined # <<>> /\ char_islower(joined[1])
        THEN <<char_upper(joined[1])>> \o Tail(joined)
        ELSE joined

\* _clean_romanization(text): the three stages in order, the text after
\* each stage bound as a value before the next one runs
clean_romanization(t) ==
    CHOOSE cleaned \in
       {CapitalizeSentences(replaced) :
           replaced \in {ApplyReplacements(stripped, 1, Len(replacements)) :
                            stripped \in {StripSymbols(t)}}} : TRUE

RomanAlphabet == {".", " ", "n", "i", "M", "~", "'"}

\* Roman text of the kind the ITRANS scheme produces
RomanSamples ==
    {<<"n", "a", "m", "a", "s", "t", "e">>,
     <<"l", "a", ".", "D", "a", "k", "A", " ", "p", "a", "h", "a", "l", "e">>,
     <<"k", "S", "h", "a", "t", "r", "i", "y", "a", " ", "j", "~", "n", "A", "n", "a">>,
     <<"y", "a", "h", "a", " ", "a", "c", "h", "C", "h", "A", " ", "h", "a", "i", " ", "|">>,
     <<"s", "a", "M", "s", "k", "R", "R", "i", "t", "a", ".", " ", "n", "i", "i", "l", "a">>,
     <<"R", "^", "i", "S", "h", "i", " ", ".", "n">>,
     <<"a", "M", "t", "a", ".", " ", "n", "a", "y", "A">>,
     <<"\"", "h", "A", ".", "N", "\"", " ", ",", " ", "'", " ", "v", "a", "h", "a">>}

CleanInputs == SeqsUpTo(RomanAlphabet, MaxRoman) \cup RomanSamples

InitC ==
    /\ pc = "c_start"
    /\ text \in CleanInputs
    /\ use_gemini = FALSE
    /\ Idle

\* one cleanup pass
C_Once ==
    /\ pc = "c_start"
    /\ once' = clean_romanization(text)
    /\ pc' = "c_once"
    /\ UNCHANGED <<text, out, translit_vars, roman_vars, translate_vars, escaped, twice>>

\* the cleanup pass run again on its own output
C_Twice ==
    /\ pc = "c_once"
    /\ twice' = clean_romanization(once)
    /\ pc' = "c_twice"
    /\ UNCHANGED <<text, out, translit_vars, roman_vars, translate_vars, escaped, once>>

NextC == C_Once \/ C_Twice

SpecC == InitC /\ [][NextC]_vars

-----------------------------------------------------------------------------
(* hindi_to_roman_transliteration and _enhanced_manual_hindi_to_roman.     *)

PlainAscii == LowerChars \cup UpperChars \cup {" "}

\* What the library call transliterate(hindi_text, DEVANAGARI, ITRANS) can
\* return when it does not raise: text without Devanagari comes back as it
\* is, anything else as some Roman text.
LibraryOutputs(h) ==
    IF \A k \in DOMAIN h : h[k] \in PlainAscii THEN {h} ELSE RomanSamples

\* MapChars with unmapped letters dropped in the final else arm
RECURSIVE MapCharsDropsLetters(_, _)
MapCharsDropsLetters(h, res) ==
    IF h = <<>> THEN res
    ELSE LET char == Head(h)
         IN  MapCharsDropsLetters(Tail(h),
                IF <<char>> \in DOMAIN enhanced_map THEN res \o enhanced_map[<<char>>]
                ELSE IF char_isspace(char) \/ ~ char_isalpha(char) THEN Append(res, char)
                ELSE res)

RECURSIVE MapChars(_, _)
\* for char in hindi_text: ... result += ...
MapChars(h, res) ==
    IF h = <<>> THEN res
    ELSE LET char == Head(h)
         IN  MapChars(Tail(h),
                IF <<char>> \in DOMAIN enhanced_map THEN res \o enhanced_map[<<char>>]
                ELSE IF char_isspace(char) \/ ~ char_isalpha(char) THEN Append(res, char)
                ELSE Append(res, char))

HindiAlphabet == {"u0915", "u094d", "u0937", "u0911", " ", ".", "~", "a"}

HindiSamples ==
    {<<"u0928", "u092e", "u0938", "u094d", "u0924", "u0947">>,
     <<"u0932", "u0921", "u093c", "u0915", "u093e", " ", "u092a", "u0939", "u0932", "u0947">>,
     <<"u0915", "u094d", "u0937", "u0924", "u094d", "u0930", "u093f", "u092f", " ", "u091c", "u094d", "u091e", "u093e", "u0928">>,
     <<"u0911", "u092b", "u093f", "u0938">>,
     <<" ", "u092f", "u0939", " ", "u0905", "u091a", "u094d", "u091b", "u093e", " ", "u0939", "u0948", " ", ".", "\n">>,
     <<"u0905", "u0902", "u0924", ".", " ", "u0928", "u092f", "u093e">>,
     <<".", ".", "u0928">>}

HindiInputs == SeqsUpTo(HindiAlphabet, MaxHindi) \cup HindiSamples

InitR ==
    /\ pc = "r_start"
    /\ text = <<>>
    /\ use_gemini = FALSE
    /\ hindi \in HindiInputs
    /\ calls = <<>> /\ results = NoResults
    /\ lines = <<>> /\ result_lines = <<>> /\ words = <<>> /\ result_words = <<>>
    /\ prefix = <<>> /\ suffix = <<>> /\ word = <<>> /\ i = 0 /\ result = <<>>
    /\ primary = <<>> /\ fallbacks = 0 /\ mapped = <<>> /\ roman = <<>>
    /\ library_out = <<>>
    /\ escaped = FALSE /\ once = <<>> /\ twice = <<>> /\ out = <<>>

others_R == <<text, out, translit_vars, translate_vars, clean_vars>>

\* try: transliterate(...) returns; roman_text = self._clean_romanization(roman_text)
R_PrimaryReturns ==
    /\ pc = "r_start"
    /\ \E r \in LibraryOutputs(hindi) :
          /\ library_out' = r
          /\ roman' = clean_romanization(r)
    /\ primary' = Append(primary, "ok")
    /\ pc' = "r_done"
    /\ UNCHANGED <<hindi, fallbacks, mapped, escaped, others_R>>

\* except Exception: st.error(...); call self._enhanced_manual_hindi_to_roman
R_PrimaryRaises ==
    /\ pc = "r_start"
    /\ primary' = Append(primary, "raised")
    /\ pc' = "r_fallback"
    /\ UNCHANGED <<hindi, fallbacks, library_out, mapped, roman, escaped, others_R>>

\* the mapping loop of _enhanced_manual_hindi_to_roman
F_Map ==
    /\ pc = "r_fallback"
    /\ mapped' = MapChars(hindi, <<>>)
    /\ fallbacks' = fallbacks + 1
    /\ pc' = "r_cleanup"
    /\ UNCHANGED <<hindi, primary, library_out, roman, escaped, others_R>>

\* F_Return with the cleanup pass left out
F_ReturnUncleaned ==
    /\ pc = "r_cleanup"
    /\ roman' = mapped
    /\ pc' = "r_done"
    /\ UNCHANGED <<hindi, primary, fallbacks, library_out, mapped, escaped, others_R>>

\* result = self._clean_romanization(result); return result
F_Return ==
    /\ pc = "r_cleanup"
    /\ roman' = clean_romanization(mapped)
    /\ pc' = "r_done"
    /\ UNCHANGED <<hindi, primary, fallbacks, library_out, mapped, escaped, others_R>>

NextR == R_PrimaryReturns \/ R_PrimaryRaises \/ F_Map \/ F_Return

SpecR == InitR /\ [][NextR]_vars

-----------------------------------------------------------------------------
(* english_to_hindi_translation, _translate_with_googletrans and           *)
(* transform_text.                                                         *)

\* return "Translation failed"
translation_failed ==
    <<"T", "r", "a", "n", "s", "l", "a", "t", "i", "o", "n", " ", "f", "a", "i", "l", "e", "d">>

\* english_to_devanagari_transliteration(text) as a function of its argument
english_to_devanagari_transliteration(t) ==
    LET ls == str_split(t, <<"\n">>)
    IN  str_join(<<"\n">>, [k \in DOMAIN ls |-> TransliterateLine(ls[k])])

TransformInputs ==
    {<<"t", "h", "e", " ", "b", "o", "y">>,
     <<"t", "h", "i", "n", "k">>,
     <<"\"", "h", "e", "l", "l", "o", "!", "\"">>,
     <<"T", "h", "e", " ", "e", "n", "d", ".", "\n", "\n", "t", "h", "e", "e">>}

\* Hindi text an external translator can return
TranslatorOutputs == HindiSamples

InitX ==
    /\ pc = "x_start"
    /\ text \in TransformInputs
    /\ use_gemini \in BOOLEAN
    /\ Idle

others_X == <<text, translit_vars, clean_vars>>

\* eng_devanagari = self.english_to_devanagari_transliteration(input_text)
X_Transliterate ==
    /\ pc = "x_start"
    /\ out' = english_to_devanagari_transliteration(text)
    /\ pc' = "x_translate"
    /\ UNCHANGED <<roman_vars, translate_vars, escaped, others_X>>

\* if self.use_gemini: self.model.generate_content(...) returns;
\* return response.text.strip()
X_GeminiReturns ==
    /\ pc = "x_translate"
    /\ use_gemini
    /\ \E h \in TranslatorOutputs : hindi' = str_strip(h)
    /\ calls' = Append(calls, [service |-> "gemini", ok |-> TRUE])
    /\ pc' = "r_start"
    /\ UNCHANGED <<out, use_gemini, results, primary, fallbacks, library_out, mapped,
                   roman, escaped, others_X>>

\* X_GeminiRaises with the Gemini call tried again after its failure
X_GeminiRaisesRetries ==
    /\ pc = "x_translate"
    /\ use_gemini
    /\ Len(calls) < 3
    /\ calls' = Append(calls, [service |-> "gemini", ok |-> FALSE])
    /\ pc' = "x_translate"
    /\ UNCHANGED <<out, use_gemini, results, roman_vars, escaped, others_X>>

\* except Exception: st.error(...); return self._translate_with_googletrans(text)
X_GeminiRaises ==
    /\ pc = "x_translate"
    /\ use_gemini
    /\ calls' = Append(calls, [service |-> "gemini", ok |-> FALSE])
    /\ pc' = "x_googletrans"
    /\ UNCHANGED <<out, use_gemini, results, roman_vars, escaped, others_X>>

\* _translate_with_googletrans is entered from the except arm or the else arm
InGoogletrans == pc = "x_googletrans" \/ (pc = "x_translate" /\ ~ use_gemini)

\* translation = self.translator.translate(...); return translation.text
X_GoogleReturns ==
    /\ InGoogletrans
    /\ \E h \in TranslatorOutputs : hindi' = h
    /\ calls' = Append(calls, [service |-> "googletrans", ok |-> TRUE])
    /\ pc' = "r_start"
    /\ UNCHANGED <<out, use_gemini, results, primary, fallbacks, library_out, mapped,
                   roman, escaped, others_X>>

\* X_GoogleRaises without the except arm: the exception leaves transform_text
X_GoogleRaisesPropagates ==
    /\ InGoogletrans
    /\ calls' = Append(calls, [service |-> "googletrans", ok |-> FALSE])
    /\ escaped' = TRUE
    /\ pc' = "x_raised"
    /\ UNCHANGED <<out, use_gemini, results, roman_vars, others_X>>

\* except Exception: st.error(...); return "Translation failed"
X_GoogleRaises ==
    /\ InGoogletrans
    /\ hindi' = translation_failed
    /\ calls' = Append(calls, [service |-> "googletrans", ok |-> FALSE])
    /\ pc' = "r_start"
    /\ UNCHANGED <<out, use_gemini, results, primary, fallbacks, library_out, mapped,
                   roman, escaped, others_X>>

\* results[...] = ...; return results
X_Return ==
    /\ pc = "r_done"
    /\ results' = [english_devanagari |-> out, hindi_devanagari |-> hindi,
                   hindi_roman |-> roman]
    /\ pc' = "x_done"
    /\ UNCHANGED <<out, use_gemini, calls, roman_vars, escaped, others_X>>

NextX ==
    \/ X_Transliterate
    \/ X_GeminiReturns \/ X_GeminiRaises \/ X_GoogleReturns \/ X_GoogleRaises
    \/ R_PrimaryReturns \/ R_PrimaryRaises \/ F_Map \/ F_Return
    \/ X_Return

SpecX == InitX /\ [][NextX]_vars

-----------------------------------------------------------------------------
(* Properties of the transliteration engine.                               *)

CountChar(s, c) == Cardinality({k \in DOMAIN s : s[k] = c})
NumLines(s) == CountChar(s, "\n") + 1
IsBlank(s) == \A k \in DOMAIN s : char_isspace(s[k])
MaxOf(S) == CHOOSE n \in S : \A m \in S : m <= n

\* The maximal leading run of prefix characters of a token, the maximal
\* trailing run of suffix characters of what remains, and the lower-cased core
\* between them, read off the token itself.
LeadLen(tok) ==
    CHOOSE n \in 0..Len(tok) :
        /\ \A j \in 1..n : tok[j] \in PrefixChars
        /\ n = Len(tok) \/ tok[n + 1] \notin PrefixChars
TrailLen(tok) ==
    CHOOSE m \in 0..(Len(tok) - LeadLen(tok)) :
        /\ \A j \in (Len(tok) - m + 1)..Len(tok) : tok[j] \in SuffixChars
        /\ m = Len(tok) - LeadLen(tok) \/ tok[Len(tok) - m] \notin SuffixChars
LeadRun(tok) == SubSeq(tok, 1, LeadLen(tok))
TrailRun(tok) == SubSeq(tok, Len(tok) - TrailLen(tok) + 1, Len(tok))
CoreOf(tok) == str_lower(SubSeq(tok, LeadLen(tok) + 1, Len(tok) - TrailLen(tok)))

KeysAt(w, c) ==
    {n \in 1..Min(8, Len(w) - c) : Slice(w, c, c + n) \in DOMAIN eng_to_dev_map}

\* C1: the output has exactly as many '\n'-separated lines as the input, the
\* k-th output line is the transliteration of the k-th input line alone, and
\* an empty or whitespace-only input line gives an empty output line (the
\* empty input gives the empty output).
C1_LineStructure ==
    /\ Len(result_lines) <= Len(lines)
    /\ \A k \in DOMAIN result_lines : result_lines[k] = TransliterateLine(lines[k])
    /\ pc = "t_done" =>
          LET inl == str_split(text, <<"\n">>)
              outl == str_split(out, <<"\n">>)
          IN  /\ NumLines(out) = NumLines(text)
              /\ Len(outl) = Len(inl)
              /\ \A k \in DOMAIN inl :
                    /\ outl[k] = TransliterateLine(inl[k])
                    /\ IsBlank(inl[k]) => outl[k] = <<>>
              /\ text = <<>> => out = <<>>

C1_Witness ==
    /\ pc = "t_done"
    /\ Len(lines) >= 3
    /\ \E k \in DOMAIN lines : IsBlank(lines[k]) /\ lines[k] # <<>>
    /\ \E k \in DOMAIN lines : result_lines[k] # <<>>

\* C2: a token whose lower-cased core is exactly a key of the phonetic table
\* is emitted as prefix + table[core] + suffix; "think" gives the value of
\* "think", and "the boy" gives the value of "the", one space, the value of
\* "boy".
C2_WholeWord ==
    /\ \A k \in DOMAIN result_words :
          CoreOf(words[k]) \in DOMAIN eng_to_dev_map =>
             result_words[k] =
                LeadRun(words[k]) \o eng_to_dev_map[CoreOf(words[k])] \o TrailRun(words[k])
    /\ (pc = "t_done" /\ text = <<"t", "h", "i", "n", "k">>) =>
          out = eng_to_dev_map[<<"t", "h", "i", "n", "k">>]
    /\ (pc = "t_done" /\ text = <<"t", "h", "e", " ", "b", "o", "y">>) =>
          out = eng_to_dev_map[<<"t", "h", "e">>] \o <<" ">>
                   \o eng_to_dev_map[<<"b", "o", "y">>]

C2_Witness ==
    \E k \in DOMAIN result_words :
        /\ CoreOf(words[k]) = <<"t", "h", "e">>
        /\ words[k] # CoreOf(words[k])
        /\ result_words[k] # eng_to_dev_map[<<"t", "h">>] \o eng_to_dev_map[<<"e">>]

\* C3: _transliterate_word_advanced is entered only with a core that is not
\* a key, and every iteration of its scan that finds a key at the cursor
\* consumes the longest key of length at most min(8, len(word) - i) there:
\* it appends that key's value and advances the cursor by exactly its length.
C3_LongestMatch ==
    /\ [](pc = "t_scan" => word \notin DOMAIN eng_to_dev_map)
    /\ [][(pc = "t_scan" /\ i < Len(word) /\ KeysAt(word, i) # {}) =>
             LET longest == MaxOf(KeysAt(word, i))
             IN  /\ i' = i + longest
                 /\ result' = result \o eng_to_dev_map[Slice(word, i, i + longest)]]_vars

C3_Witness ==
    /\ pc = "t_scan"
    /\ \E n \in 2..8 :
          /\ i = n
          /\ Cardinality(KeysAt(word, 0)) >= 2
          /\ n = MaxOf(KeysAt(word, 0))
          /\ result = eng_to_dev_map[Slice(word, 0, n)]

\* C4: every output token is P + T + S, with P the maximal leading run of
\* prefix characters of the token, S the maximal trailing run of suffix
\* characters of what remains, both in their original order, and T the
\* transliteration of the core between them; a token whose core is empty is
\* emitted exactly as it appeared.
C4_Punctuation ==
    \A k \in DOMAIN result_words :
        result_words[k] =
           IF CoreOf(words[k]) = <<>> THEN words[k]
           ELSE LeadRun(words[k]) \o TransliterateCore(CoreOf(words[k]))
                   \o TrailRun(words[k])

C4_Witness ==
    /\ \E k \in DOMAIN result_words :
          /\ LeadLen(words[k]) >= 1
          /\ TrailLen(words[k]) >= 2
          /\ CoreOf(words[k]) # <<>>
          /\ TrailRun(words[k])[1] # TrailRun(words[k])[2]
    /\ \E k \in DOMAIN result_words :
          CoreOf(words[k]) = <<>> /\ Len(words[k]) >= 2

-----------------------------------------------------------------------------
(* Properties of the romanization engine and of transform_text.            *)

RECURSIVE Concat(_)
Concat(parts) ==
    IF parts = <<>> THEN <<>> ELSE Head(parts) \o Concat(Tail(parts))

\* The fallback table's image of one character and of a whole string
CharImage(c) ==
    IF <<c>> \in DOMAIN enhanced_map THEN enhanced_map[<<c>>] ELSE <<c>>
FallbackImage(h) == Concat([k \in DOMAIN h |-> CharImage(h[k])])

\* The characters of h that are not keys of the fallback table, in order
RECURSIVE NonKeyChars(_)
NonKeyChars(h) ==
    IF h = <<>> THEN <<>>
    ELSE (IF <<Head(h)>> \in DOMAIN enhanced_map THEN <<>> ELSE <<Head(h)>>)
            \o NonKeyChars(Tail(h))

\* a occurs in b as a subsequence: its characters unchanged, in their order
RECURSIVE IsSubsequence(_, _)
IsSubsequence(a, b) ==
    IF a = <<>> THEN TRUE
    ELSE IF b = <<>> THEN FALSE
    ELSE IF Head(a) = Head(b) THEN IsSubsequence(Tail(a), Tail(b))
    ELSE IsSubsequence(a, Tail(b))

UpperFirst(s) == IF s = <<>> THEN s ELSE <<char_upper(s[1])>> \o Tail(s)

\* The text handed to _clean_romanization by whichever path returned
CleanupInput == IF fallbacks = 0 THEN library_out ELSE mapped

\* The text sentence capitalization starts from
BeforeCapitalization(t) ==
    CHOOSE replaced \in
       {ApplyReplacements(stripped, 1, Len(replacements)) :
           stripped \in {StripSymbols(t)}} : TRUE

AllCallsFailed == calls # <<>> /\ \A k \in DOMAIN calls : ~ calls[k].ok

SentinelText ==
    <<"T", "r", "a", "n", "s", "l", "a", "t", "i", "o", "n", " ", "f", "a", "i", "l", "e", "d">>

\* C5: hindi_to_roman_transliteration never raises to its caller; the
\* primary step is attempted exactly once and never again, and when it
\* raises the fallback mapping runs exactly once and the returned value is
\* the cleanup pass applied to the fallback mapping of the same input.
C5_GracefulDegradation ==
    /\ ~ escaped
    /\ Len(primary) <= 1
    /\ fallbacks <= 1
    /\ pc = "r_done" =>
          /\ Len(primary) = 1
          /\ primary[1] = "ok" => fallbacks = 0
          /\ primary[1] = "raised" =>
                /\ fallbacks = 1
                /\ roman = clean_romanization(FallbackImage(hindi))

C5_Witness ==
    /\ pc = "r_done"
    /\ primary = <<"raised">>
    /\ fallbacks = 1
    /\ FallbackImage(hindi) # hindi
    /\ roman # FallbackImage(hindi)

\* C6: when every translator call of transform_text failed, no exception
\* escapes, the text handed to the romanizer and the 'hindi_devanagari'
\* result are the sentinel "Translation failed", and the 'hindi_roman'
\* result is the sentinel unchanged.
C6_TranslationFailure ==
    /\ ~ escaped
    /\ pc # "x_raised"
    /\ (AllCallsFailed /\ pc \in {"r_start", "r_fallback", "r_cleanup", "r_done", "x_done"}) =>
          hindi = SentinelText
    /\ (AllCallsFailed /\ pc \in {"r_done", "x_done"}) => roman = SentinelText
    /\ (AllCallsFailed /\ pc = "x_done") =>
          /\ results.hindi_devanagari = SentinelText
          /\ results.hindi_roman = SentinelText

C6_Witness ==
    /\ pc = "x_done"
    /\ use_gemini
    /\ Len(calls) = 2
    /\ AllCallsFailed
    /\ fallbacks = 1
    /\ results.hindi_roman = SentinelText

\* C7: a second cleanup pass changes nothing:
\* _clean_romanization(_clean_romanization(s)) = _clean_romanization(s).
C7_Idempotent == pc = "c_twice" => twice = once

\* C8 as stated: a non-empty result whose first character is alphabetic
\* starts with an uppercase character, and the result is the '. '-delimited
\* pieces with their first character upper-cased, rejoined with '. '.
C8_FirstAlphabeticIsUpper ==
    pc = "r_done" =>
       /\ (roman # <<>> /\ char_isalpha(roman[1])) => char_isupper(roman[1])
       /\ \A before \in {BeforeCapitalization(CleanupInput)} :
             \A pieces \in {str_split(before, <<".", " ">>)} :
                roman = str_join(<<".", " ">>,
                                 [k \in DOMAIN pieces |-> UpperFirst(pieces[k])])

\* C8: the first character of a non-empty result is its own upper-case form
\* (a letter that has an uppercase form is uppercase, a letter without one
\* stays as it is), and the result is the '. '-delimited pieces, each
\* stripped of surrounding whitespace and with its first character
\* upper-cased, rejoined with '. '.
C8_Capitalization ==
    pc = "r_done" =>
       /\ roman # <<>> => char_upper(roman[1]) = roman[1]
       /\ \A before \in {BeforeCapitalization(CleanupInput)} :
             \A pieces \in {str_split(before, <<".", " ">>)} :
                roman = str_join(<<".", " ">>,
                                 [k \in DOMAIN pieces |->
                                     UpperFirst(str_strip(pieces[k]))])

C8_Witness ==
    /\ pc = "r_done"
    /\ roman # <<>>
    /\ char_isalpha(roman[1])
    /\ ~ char_isupper(roman[1])
    /\ fallbacks = 1

\* C9 as stated: exactly one call to a translation service per execution.
C9_SingleCall == pc = "x_done" => Len(calls) = 1

\* C9: an execution makes one or two calls to translation services, never
\* two to the same service; the first goes to the configured service, and a
\* second call is made exactly when the Gemini call failed, to googletrans.
C9_TranslatorCalls ==
    /\ Len(calls) <= 2
    /\ \A j, k \in DOMAIN calls : calls[j].service = calls[k].service => j = k
    /\ calls # <<>> =>
          calls[1].service = (IF use_gemini THEN "gemini" ELSE "googletrans")
    /\ Len(calls) = 2 =>
          /\ calls[1] = [service |-> "gemini", ok |-> FALSE]
          /\ calls[2].service = "googletrans"
    /\ pc \in {"r_start", "r_fallback", "r_cleanup", "r_done", "x_done"} =>
          /\ Len(calls) \in {1, 2}
          /\ Len(calls) = 2 <=> (use_gemini /\ ~ calls[1].ok)

C9_Witness ==
    /\ pc = "x_done"
    /\ Len(calls) = 2
    /\ calls[2].ok
    /\ results.hindi_devanagari # <<>>

\* C10 as stated: the fallback path returns without error and every
\* character of the input that is not a key of the fallback table appears in
\* the returned string unchanged and in its original relative position.
C10_ReturnedPassThrough ==
    /\ ~ escaped
    /\ (pc = "r_done" /\ fallbacks = 1) =>
          /\ IsSubsequence(NonKeyChars(hindi), roman)
          /\ NonKeyChars(hindi) = hindi => roman = hindi

\* C10: the fallback path returns without error; every character that is
\* not a key of the fallback table appears unchanged and in its original
\* relative position in the result of the mapping step, and the returned
\* string is the cleanup pass applied to that result.
C10_MappingPassThrough ==
    /\ ~ escaped
    /\ (fallbacks = 1 /\ pc \in {"r_cleanup", "r_done"}) =>
          /\ mapped = FallbackImage(hindi)
          /\ IsSubsequence(NonKeyChars(hindi), mapped)
          /\ NonKeyChars(hindi) = hindi => mapped = hindi
    /\ (fallbacks = 1 /\ pc = "r_done") => roman = clean_romanization(mapped)

C10_Witness ==
    /\ pc = "r_done"
    /\ fallbacks = 1
    /\ NonKeyChars(hindi) # <<>>
    /\ NonKeyChars(hindi) # hindi
    /\ \E k \in DOMAIN hindi : hindi[k] \in DevanagariLetters /\ CharImage(hindi[k]) = <<hindi[k]>>
    /\ \E k \in DOMAIN hindi : hindi[k] \in {".", "~"}
    /\ roman # mapped

\* The occurrences <<p, n>> of a key of the fallback table in h: the n
\* characters of h from position p on are a key
KeyOccurrences(h) ==
    {<<p, n>> \in (1..Len(h)) \X (1..Len(h)) :
        /\ p + n - 1 <= Len(h)
        /\ SubSeq(h, p, p + n - 1) \in DOMAIN enhanced_map}

\* C11: in the fallback path every key of the fallback table that occurs in
\* the input, the conjunct and two-code-point vowel keys included, is rendered
\* as that key's own table value in the result of the mapping step.
C11_GraphemeKeys ==
    (fallbacks = 1 /\ pc \in {"r_cleanup", "r_done"}) =>
       \A occ \in KeyOccurrences(hindi) :
          mapped = FallbackImage(SubSeq(hindi, 1, occ[1] - 1))
                      \o enhanced_map[SubSeq(hindi, occ[1], occ[1] + occ[2] - 1)]
                      \o FallbackImage(SubSeq(hindi, occ[1] + occ[2], Len(hindi)))

AsciiLowerLetters ==
    {"a", "b", "c", "d", "e", "f", "g", "h", "i", "j", "k", "l", "m",
     "n", "o", "p", "q", "r", "s", "t", "u", "v", "w", "x", "y", "z"}

\* C12: every letter a to z is a key, so at a cursor position holding one of
\* them the probe matches and a table value is appended; the no-match branch
\* runs only for a character outside a-z, which it copies unchanged (its 'y'
\* and 'w' special cases are never applied); the scan starts at 0, every
\* iteration moves the cursor forward by the length of what it consumed,
\* never past the end, and the call returns with the cursor at the end.
C12_ScanProgress ==
    /\ [](\A c \in AsciiLowerLetters : <<c>> \in DOMAIN eng_to_dev_map)
    /\ [](pc = "t_scan" => i <= Len(word))
    /\ [][(pc # "t_scan" /\ pc' = "t_scan") => (i' = 0 /\ result' = <<>>)]_vars
    /\ [][pc = "t_scan" =>
            IF i < Len(word)
            THEN /\ pc' = "t_scan" /\ word' = word
                 /\ i' > i /\ i' <= Len(word)
                 /\ word[i + 1] \in AsciiLowerLetters => KeysAt(word, i) # {}
                 /\ KeysAt(word, i) # {} =>
                       /\ Slice(word, i, i') \in DOMAIN eng_to_dev_map
                       /\ result' = result \o eng_to_dev_map[Slice(word, i, i')]
                 /\ KeysAt(word, i) = {} =>
                       /\ word[i + 1] \notin AsciiLowerLetters
                       /\ i' = i + 1
                       /\ result' = Append(result, word[i + 1])
            ELSE /\ i = Len(word)
                 /\ pc' = "t_words"
                 /\ result_words' = Append(result_words, prefix \o result \o suffix)]_vars

C12_Witness ==
    /\ pc = "t_scan"
    /\ i = Len(word)
    /\ \E k \in 2..Len(word) : word[k] = "y"
    /\ \E k \in DOMAIN word : word[k] \notin AsciiLowerLetters
    /\ result = Concat([k \in DOMAIN word |->
                          IF word[k] \in AsciiLowerLetters
                          THEN eng_to_dev_map[<<word[k]>>] ELSE <<word[k]>>])

=============================================================================
